---- MODULE Spec2Model ----
(***************************************************************************)
(* Burner swarm wallet pool: PoolManager (three insertion-ordered dicts of *)
(* BurnerWallet objects), RotationStrategy and BurnerSwarmFabric, with the *)
(* fabric's coroutines run by one asyncio event loop: a coroutine runs     *)
(* without interruption from one await that suspends to the next.          *)
(***************************************************************************)
EXTENDS Integers, Sequences, FiniteSets, TLC

\* ------------------------------------------------------------------ bounds
MaxOps == 3            \* operations in one run
MaxReserveCfg == 1     \* min_reserve_size is drawn from 0..MaxReserveCfg
MaxActiveCfg == 1      \* max_active_size
MaxUsesCfg == 2        \* max_uses is drawn from 1..MaxUsesCfg
MaxAgeCfg == 0         \* max_age_hours is drawn from 0..MaxAgeCfg
MaxSwarm == 2          \* get_burner_swarm count is drawn from 0..MaxSwarm
NumCallers == 2        \* concurrent requests on the event loop
MaxCount == 2          \* select_rotation_candidates count is None or in 0..MaxCount
MaxKeypairs == 3       \* keypairs handed to encrypt_keypair

Callers == 1..NumCallers

VARIABLES
    min_reserve_size,  \* PoolManager.min_reserve_size
    max_active_size,   \* PoolManager.max_active_size
    max_uses,          \* RotationStrategy.max_uses
    max_age_hours,     \* RotationStrategy.max_age_hours
    active_pool,       \* PoolManager.active_pool: keys in insertion order
    reserve_pool,      \* PoolManager.reserve_pool
    retired_pool,      \* PoolManager.retired_pool
    wallets,           \* every BurnerWallet object made so far; index = public key
    now,               \* datetime.utcnow()
    calls,             \* per caller: where its coroutine stands
    grabs,             \* history: how many get_burner calls obtained each wallet
    only_gets,         \* history: nothing but unfunded get_burner calls so far
    ngets,             \* history: how many of them (while only_gets)
    last,              \* history: the operation that just finished
    nops,              \* history: operations so far
    client,            \* FundingManager.client: 0 for None, else the AsyncClient object
    made               \* history: AsyncClient objects constructed so far

cfg == <<min_reserve_size, max_active_size, max_uses, max_age_hours>>
pools == <<active_pool, reserve_pool, retired_pool>>
rpc == <<client, made>>
vars == <<min_reserve_size, max_active_size, max_uses, max_age_hours, active_pool,
          reserve_pool, retired_pool, wallets, now, calls, grabs, only_gets, ngets, last,
          nops, client, made>>

\* ------------------------------------------------------------ dict helpers
Range(s) == {s[i] : i \in 1..Len(s)}

\* d[k] = v on an insertion-ordered dict: a present key keeps its place.
DictPut(d, k) == IF k \in Range(d) THEN d ELSE Append(d, k)

\* del d[k]
DictDel(d, k) == SelectSeq(d, LAMBDA x : x # k)

Max(a, b) == IF a >= b THEN a ELSE b

\* ------------------------------------------------------------ BurnerWallet
NoKey == "None"

WalletStatus == {"active", "reserve", "retired"}

\* BurnerWallet(public_key, keypair, created_at, status=RESERVE) followed by
\* wallet.encrypted_private_key = encrypt_keypair(keypair)
NewWallet(pk, t) ==
    [public_key |-> pk, keypair |-> "keypair", created_at |-> t, last_used |-> -1,
     usage_count |-> 0, status |-> "reserve", encrypted_private_key |-> "ciphertext"]

\* mark_used that records that the wallet has been used, not how often
mark_used_sets_one(w, t) == [w EXCEPT !.last_used = t, !.usage_count = 1]

\* BurnerWallet.mark_used
mark_used(w, t) == [w EXCEPT !.last_used = t, !.usage_count = @ + 1]

\* is_expired with >= for >: a wallet is expired as soon as it has the maximum age
is_expired_inclusive(w, max_age, t) == (t - w.created_at) >= max_age

\* BurnerWallet.is_expired
is_expired(w, max_age, t) == (t - w.created_at) > max_age

\* should_retire with == for >=
should_retire_exact(w, maxuses) == w.usage_count = maxuses

\* BurnerWallet.should_retire
should_retire(w, maxuses) == w.usage_count >= maxuses

\* ---------------------------------------------------------- RotationStrategy
\* The fabric builds its strategy with the two toggles at their defaults.
rotation_strategy ==
    [max_uses |-> max_uses, max_age_hours |-> max_age_hours,
     rotation_on_time |-> TRUE, rotation_on_use |-> TRUE]

\* should_rotate that does not look at the two toggles
should_rotate_ignores_toggles(rs, w, t) ==
    IF should_retire(w, rs.max_uses) THEN TRUE
    ELSE IF is_expired(w, rs.max_age_hours, t) THEN TRUE
    ELSE FALSE

should_rotate(rs, w, t) ==
    IF rs.rotation_on_use /\ should_retire(w, rs.max_uses) THEN TRUE
    ELSE IF rs.rotation_on_time /\ is_expired(w, rs.max_age_hours, t) THEN TRUE
    ELSE FALSE

\* -------------------------------------------------------------- PoolManager
\* The pools and the wallet objects as one value, so that the methods compose.
PM == [active |-> active_pool, reserve |-> reserve_pool, retired |-> retired_pool,
       wallets |-> wallets]

\* generate_wallet whose generator hands out one and the same keypair every time
generate_wallet_same_keypair(s, t) ==
    [s EXCEPT !.wallets = Append(@, NewWallet(1, t))]

\* generate_wallet: a fresh keypair has a public key no earlier wallet has.
generate_wallet(s, t) ==
    [s EXCEPT !.wallets = Append(@, NewWallet(Len(@) + 1, t))]

\* add_to_reserve(wallet) for an existing wallet object
add_to_reserve(s, k) ==
    [s EXCEPT !.wallets[k].status = "reserve", !.reserve = DictPut(@, k)]

\* add_to_reserve() with wallet None
add_to_reserve_new(s, t) ==
    add_to_reserve(generate_wallet(s, t), Len(s.wallets) + 1)

\* a reserve that hands out the wallet added last
reserve_first_newest(s) == IF s.reserve = <<>> THEN 0 ELSE s.reserve[Len(s.reserve)]

\* get_from_reserve: the pools afterwards; the wallet handed out is reserve_first
reserve_first(s) == IF s.reserve = <<>> THEN 0 ELSE Head(s.reserve)

\* get_from_reserve that hands the first wallet out and leaves it in the reserve
get_from_reserve_peek(s) == s

get_from_reserve(s) ==
    IF s.reserve = <<>> THEN s ELSE [s EXCEPT !.reserve = DictDel(@, Head(@))]

\* activate_wallet that counts each activation as a use of the wallet
activate_wallet_counts_use(s, k) ==
    [s EXCEPT !.wallets[k].status = "active", !.wallets[k].usage_count = @ + 1,
              !.active = DictPut(@, k)]

activate_wallet(s, k) ==
    [s EXCEPT !.wallets[k].status = "active", !.active = DictPut(@, k)]

\* retire_wallet that moves and wipes the wallet and leaves its status as it was
retire_wallet_keeps_status(s, k) ==
    LET removed == IF k \in Range(s.active) THEN [s EXCEPT !.active = DictDel(@, k)]
                   ELSE IF k \in Range(s.reserve) THEN [s EXCEPT !.reserve = DictDel(@, k)]
                   ELSE s
    IN [removed EXCEPT !.retired = DictPut(@, k),
                       !.wallets[k].keypair = NoKey,
                       !.wallets[k].encrypted_private_key = NoKey]

\* retire_wallet that forgets to take the wallet out of the pool it was in
retire_wallet_no_removal(s, k) ==
    [s EXCEPT !.wallets[k].status = "retired",
              !.retired = DictPut(@, k),
              !.wallets[k].keypair = NoKey,
              !.wallets[k].encrypted_private_key = NoKey]

\* retire_wallet that clears the keypair and keeps the stored ciphertext
retire_wallet_keeps_ciphertext(s, k) ==
    LET removed == IF k \in Range(s.active) THEN [s EXCEPT !.active = DictDel(@, k)]
                   ELSE IF k \in Range(s.reserve) THEN [s EXCEPT !.reserve = DictDel(@, k)]
                   ELSE s
    IN [removed EXCEPT !.wallets[k].status = "retired",
                       !.retired = DictPut(@, k),
                       !.wallets[k].keypair = NoKey]

retire_wallet(s, k) ==
    LET removed == IF k \in Range(s.active) THEN [s EXCEPT !.active = DictDel(@, k)]
                   ELSE IF k \in Range(s.reserve) THEN [s EXCEPT !.reserve = DictDel(@, k)]
                   ELSE s
    IN [removed EXCEPT !.wallets[k].status = "retired",
                       !.retired = DictPut(@, k),
                       !.wallets[k].keypair = NoKey,
                       !.wallets[k].encrypted_private_key = NoKey]

\* get_wallet that looks in the active pool only
get_wallet_active_only(s, k) == IF k \in Range(s.active) THEN k ELSE 0

\* get_wallet: the key found in active, then reserve, then retired; 0 for None
get_wallet(s, k) ==
    IF k \in Range(s.active) THEN k
    ELSE IF k \in Range(s.reserve) THEN k
    ELSE IF k \in Range(s.retired) THEN k
    ELSE 0

RECURSIVE add_n(_, _, _)
add_n(s, n, t) == IF n <= 0 THEN s ELSE add_n(add_to_reserve_new(s, t), n - 1, t)

\* maintain_reserve_pool that also cuts a reserve above its floor back to the floor
maintain_reserve_pool_trims(s, t) ==
    LET current_size == Len(s.reserve)
    IN IF current_size < min_reserve_size
       THEN add_n(s, min_reserve_size - current_size, t)
       ELSE [s EXCEPT !.reserve = SubSeq(@, 1, min_reserve_size)]

\* maintain_reserve_pool with <= for <: it tops up a reserve that is at its floor
maintain_reserve_pool_off_by_one(s, t) ==
    LET current_size == Len(s.reserve)
    IN IF current_size <= min_reserve_size
       THEN add_n(s, min_reserve_size - current_size + 1, t)
       ELSE s

maintain_reserve_pool(s, t) ==
    LET current_size == Len(s.reserve)
    IN IF current_size < min_reserve_size
       THEN add_n(s, min_reserve_size - current_size, t)
       ELSE s

RECURSIVE retire_all(_, _)
retire_all(s, ks) == IF ks = <<>> THEN s ELSE retire_all(retire_wallet(s, Head(ks)), Tail(ks))

\* a sweep that refills the reserve after retiring
cleanup_expired_wallets_replenishes(s, max_age, t) ==
    LET exp(k) == is_expired(s.wallets[k], max_age, t)
        expired == SelectSeq(s.active, exp) \o SelectSeq(s.reserve, exp)
    IN maintain_reserve_pool(retire_all(s, expired), t)

cleanup_expired_wallets(s, max_age, t) ==
    LET exp(k) == is_expired(s.wallets[k], max_age, t)
        expired == SelectSeq(s.active, exp) \o SelectSeq(s.reserve, exp)
    IN retire_all(s, expired)

get_pool_stats(s) ==
    [active |-> Len(s.active), reserve |-> Len(s.reserve), retired |-> Len(s.retired),
     total |-> Len(s.active) + Len(s.reserve) + Len(s.retired)]

\* -------------------------------------------------------- BurnerSwarmFabric
\* get_burner up to its await: take from the reserve or generate, then activate.
burner_key(s) == IF reserve_first(s) = 0 THEN Len(s.wallets) + 1 ELSE reserve_first(s)

burner_start(s, t) ==
    LET taken == IF reserve_first(s) = 0 THEN generate_wallet(s, t) ELSE get_from_reserve(s)
    IN activate_wallet(taken, burner_key(s))

\* get_burner that returns the wallet without maintaining the reserve
burner_finish_skips_maintain(s, t) == s

\* get_burner after the funding branch: maintain the reserve, return the wallet
burner_finish(s, t) == maintain_reserve_pool(s, t)

\* an except branch that retires the wallet it could not fund
funding_failed_rollback(s, k) == retire_wallet(s, k)

\* get_burner's except branch: log and re-raise
funding_failed(s, k) == s

\* a cancellation handler that retires the wallet of the call
funding_cancelled_rollback(s, k) == retire_wallet(s, k)

\* a CancelledError at the await is no Exception: it passes the except branch
funding_cancelled(s, k) == s

\* if auto_fund and source_wallet and funding_amount (0.0 is falsy)
Amounts == {"None", "zero", "positive"}
do_fund(auto_fund, source_wallet, funding_amount) ==
    auto_fund /\ source_wallet /\ funding_amount = "positive"

\* The requests a caller can make, by whether get_burner goes on to fund.
Requests == [auto_fund : BOOLEAN, source_wallet : BOOLEAN, funding_amount : Amounts]
Funding(r) == do_fund(r.auto_fund, r.source_wallet, r.funding_amount)

\* mark_wallet_used that retires and does not replenish
mark_wallet_used_no_maintain(s, k, t) ==
    LET used == [s EXCEPT !.wallets[k] = mark_used(@, t)]
    IN IF should_rotate(rotation_strategy, used.wallets[k], t)
       THEN retire_wallet(used, k)
       ELSE used

\* mark_wallet_used that asks should_rotate before it counts the use
mark_wallet_used_checks_before(s, k, t) ==
    LET used == [s EXCEPT !.wallets[k] = mark_used(@, t)]
    IN IF should_rotate(rotation_strategy, s.wallets[k], t)
       THEN maintain_reserve_pool(retire_wallet(used, k), t)
       ELSE used

mark_wallet_used(s, k, t) ==
    LET used == [s EXCEPT !.wallets[k] = mark_used(@, t)]
    IN IF should_rotate(rotation_strategy, used.wallets[k], t)
       THEN maintain_reserve_pool(retire_wallet(used, k), t)
       ELSE used

\* rotate_wallet that retires only a wallet the strategy would rotate
rotate_wallet_when_due(s, k, t) ==
    IF should_rotate(rotation_strategy, s.wallets[k], t)
    THEN maintain_reserve_pool(retire_wallet(s, k), t)
    ELSE s

rotate_wallet(s, k, t) == maintain_reserve_pool(retire_wallet(s, k), t)

\* ------------------------------------------------------------ the callers
\* a loop that returns after its first get_burner
swarm_run_stops_after_first(s, n, t) ==
    IF n <= 0 THEN s ELSE burner_finish(burner_start(s, t), t)

\* get_burner_swarm's loop, run count times without funding: the pools afterwards
RECURSIVE swarm_run(_, _, _)
swarm_run(s, n, t) ==
    IF n <= 0 THEN s ELSE swarm_run(burner_finish(burner_start(s, t), t), n - 1, t)

\* ... and the list it returns
RECURSIVE swarm_keys(_, _, _)
swarm_keys(s, n, t) ==
    IF n <= 0 THEN <<>>
    ELSE <<burner_key(s)>> \o swarm_keys(burner_finish(burner_start(s, t), t), n - 1, t)

\* A request is idle or suspended at the await in get_burner. Requests are
\* interchangeable: a new one takes the first free place.
\* get_burner under a lock it keeps across the await: no request starts a get_burner
\* while another one waits for its funding
FirstIdle_locked(c) ==
    /\ \A d \in Callers : calls[d].pc = "idle" => c <= d
    /\ \A d \in Callers : calls[d].pc # "funding"

FirstIdle(c) == \A d \in Callers : calls[d].pc = "idle" => c <= d

Idle == [pc |-> "idle", wallet |-> 0, swarm |-> FALSE, left |-> 0, got |-> <<>>]

PoolOf(s, k) ==
    IF k \in Range(s.active) THEN "active"
    ELSE IF k \in Range(s.reserve) THEN "reserve"
    ELSE IF k \in Range(s.retired) THEN "retired"
    ELSE "none"

\* op: the operation; w: its wallet; from: the pool w was in before; gen: the wallets
\* the operation generated; rotated: it retired w; ret: the list a swarm returned;
\* count: the count a swarm was asked for; taken: the wallets a call that raised had
\* activated; out: what a query returned
Op(op, k) ==
    [op |-> op, w |-> k, from |-> "none", gen |-> 0, rotated |-> FALSE, ret |-> <<>>,
     count |-> 0, taken |-> <<>>, out |-> <<>>]

Generated(s) == Len(s.wallets) - Len(wallets)

SetPM(s) ==
    /\ active_pool' = s.active
    /\ reserve_pool' = s.reserve
    /\ retired_pool' = s.retired
    /\ wallets' = s.wallets

Count(seq, k) == Cardinality({i \in 1..Len(seq) : seq[i] = k})

\* the get_burner calls that obtained the wallets of ks are recorded
Grab(s, ks) ==
    grabs' = [k \in 1..Len(s.wallets) |->
                 (IF k <= Len(grabs) THEN grabs[k] ELSE 0) + Count(ks, k)]

Step == nops < MaxOps /\ nops' = nops + 1

NotOnlyGets == only_gets' = FALSE /\ ngets' = 0

Init ==
    /\ min_reserve_size \in 0..MaxReserveCfg
    /\ max_active_size = MaxActiveCfg
    /\ max_uses \in 1..MaxUsesCfg
    /\ max_age_hours \in 0..MaxAgeCfg
    /\ now = 0
    /\ LET s == maintain_reserve_pool([active |-> <<>>, reserve |-> <<>>,
                                       retired |-> <<>>, wallets |-> <<>>], 0)
       IN /\ active_pool = s.active
          /\ reserve_pool = s.reserve
          /\ retired_pool = s.retired
          /\ wallets = s.wallets
          /\ grabs = [k \in 1..Len(s.wallets) |-> 0]
    /\ calls = [c \in Callers |-> Idle]
    /\ only_gets = TRUE
    /\ ngets = 0
    /\ last = Op("init", 0)
    /\ nops = 0
    /\ client = 0
    /\ made = 0

\* get_burner without funding: one uninterrupted run
GetBurner(c) ==
    /\ Step
    /\ calls[c].pc = "idle"
    /\ FirstIdle(c)
    /\ {r \in Requests : ~Funding(r)} # {}
    /\ SetPM(burner_finish(burner_start(PM, now), now))
    /\ Grab(burner_finish(burner_start(PM, now), now), <<burner_key(PM)>>)
    /\ last' = [Op("get_burner", burner_key(PM)) EXCEPT
                   !.gen = Generated(burner_finish(burner_start(PM, now), now))]
    /\ only_gets' = only_gets
    /\ ngets' = IF only_gets THEN ngets + 1 ELSE 0
    /\ UNCHANGED <<cfg, rpc, now, calls>>

\* get_burner with funding, up to await fund_wallet_jit(...)
GetBurnerFunded(c) ==
    /\ Step
    /\ calls[c].pc = "idle"
    /\ FirstIdle(c)
    /\ {r \in Requests : Funding(r)} # {}
    /\ SetPM(burner_start(PM, now))
    /\ Grab(burner_start(PM, now), <<burner_key(PM)>>)
    /\ calls' = [calls EXCEPT ![c] = [Idle EXCEPT !.pc = "funding",
                                                   !.wallet = burner_key(PM)]]
    /\ last' = Op("get_burner_await", burner_key(PM))
    /\ NotOnlyGets
    /\ UNCHANGED <<cfg, rpc, now>>

\* get_burner_swarm without funding: no await suspends, the loop runs through
GetBurnerSwarm(c) ==
    /\ Step
    /\ calls[c].pc = "idle"
    /\ FirstIdle(c)
    /\ {r \in Requests : ~Funding(r)} # {}
    /\ \E count \in 0..MaxSwarm :
          /\ SetPM(swarm_run(PM, count, now))
          /\ Grab(swarm_run(PM, count, now), swarm_keys(PM, count, now))
          /\ last' = [Op("get_burner_swarm", 0) EXCEPT
                         !.ret = swarm_keys(PM, count, now),
                         !.count = count]
          /\ only_gets' = only_gets
          /\ ngets' = IF only_gets THEN ngets + count ELSE 0
    /\ UNCHANGED <<cfg, rpc, now, calls>>

\* get_burner_swarm with funding, up to the first await (count = 0 returns [])
GetBurnerSwarmFunded(c) ==
    /\ Step
    /\ calls[c].pc = "idle"
    /\ FirstIdle(c)
    /\ {r \in Requests : Funding(r)} # {}
    /\ \E count \in 0..MaxSwarm :
          /\ IF count = 0
             THEN /\ last' = Op("get_burner_swarm", 0)
                  /\ UNCHANGED <<pools, wallets, grabs, calls>>
             ELSE /\ SetPM(burner_start(PM, now))
                  /\ Grab(burner_start(PM, now), <<burner_key(PM)>>)
                  /\ calls' = [calls EXCEPT ![c] =
                                 [pc |-> "funding", wallet |-> burner_key(PM),
                                  swarm |-> TRUE, left |-> count - 1, got |-> <<>>]]
                  /\ last' = Op("get_burner_await", burner_key(PM))
    /\ NotOnlyGets
    /\ UNCHANGED <<cfg, rpc, now>>

\* fund_wallet_jit returned: get_burner maintains the reserve and returns; a swarm
\* appends the wallet and either returns or runs its next get_burner up to the await
FundingOk(c) ==
    /\ Step
    /\ calls[c].pc = "funding"
    /\ LET k == calls[c].wallet
           s == burner_finish(PM, now)
       IN IF calls[c].swarm /\ calls[c].left > 0
          THEN /\ SetPM(burner_start(s, now))
               /\ Grab(burner_start(s, now), <<burner_key(s)>>)
               /\ calls' = [calls EXCEPT ![c] =
                              [@ EXCEPT !.wallet = burner_key(s), !.left = @ - 1,
                                        !.got = Append(@, k)]]
               /\ last' = Op("get_burner_await", burner_key(s))
          ELSE /\ SetPM(s)
               /\ calls' = [calls EXCEPT ![c] = Idle]
               /\ last' = IF calls[c].swarm
                          THEN [Op("get_burner_swarm", k) EXCEPT
                                   !.ret = Append(calls[c].got, k),
                                   !.count = Len(calls[c].got) + 1]
                          ELSE [Op("get_burner", k) EXCEPT !.gen = Generated(s)]
               /\ UNCHANGED grabs
    /\ NotOnlyGets
    /\ UNCHANGED <<cfg, rpc, now>>

\* fund_wallet_jit raised: the error is logged and re-raised, through the swarm too
FundingFail(c) ==
    /\ Step
    /\ calls[c].pc = "funding"
    /\ SetPM(funding_failed(PM, calls[c].wallet))
    /\ calls' = [calls EXCEPT ![c] = Idle]
    /\ last' = [Op("get_burner_error", calls[c].wallet) EXCEPT
                   !.taken = Append(calls[c].got, calls[c].wallet)]
    /\ NotOnlyGets
    /\ UNCHANGED <<cfg, rpc, now, grabs>>

\* the request is cancelled while it waits for the funding
Cancel(c) ==
    /\ Step
    /\ calls[c].pc = "funding"
    /\ SetPM(funding_cancelled(PM, calls[c].wallet))
    /\ calls' = [calls EXCEPT ![c] = Idle]
    /\ last' = [Op("get_burner_cancelled", calls[c].wallet) EXCEPT
                   !.taken = Append(calls[c].got, calls[c].wallet)]
    /\ NotOnlyGets
    /\ UNCHANGED <<cfg, rpc, now, grabs>>

\* The wallets a caller can hand to the fabric: those get_wallet finds.
Pooled == {k \in 1..Len(wallets) : get_wallet(PM, k) # 0}

MarkWalletUsed ==
    /\ Step
    /\ \E k \in Pooled :
          /\ SetPM(mark_wallet_used(PM, k, now))
          /\ Grab(mark_wallet_used(PM, k, now), <<>>)
          /\ last' = [Op("mark_wallet_used", k) EXCEPT
                         !.from = PoolOf(PM, k),
                         !.gen = Generated(mark_wallet_used(PM, k, now)),
                         !.rotated = should_rotate(rotation_strategy,
                                                   mark_used(wallets[k], now), now)]
    /\ NotOnlyGets
    /\ UNCHANGED <<cfg, rpc, now, calls>>

RotateWallet ==
    /\ Step
    /\ \E k \in Pooled :
          /\ SetPM(rotate_wallet(PM, k, now))
          /\ Grab(rotate_wallet(PM, k, now), <<>>)
          /\ last' = [Op("rotate_wallet", k) EXCEPT
                         !.from = PoolOf(PM, k),
                         !.gen = Generated(rotate_wallet(PM, k, now)),
                         !.rotated = TRUE]
    /\ NotOnlyGets
    /\ UNCHANGED <<cfg, rpc, now, calls>>

\* BurnerSwarmFabric.cleanup_expired_wallets
CleanupExpired ==
    /\ Step
    /\ SetPM(cleanup_expired_wallets(PM, rotation_strategy.max_age_hours, now))
    /\ last' = Op("cleanup_expired_wallets", 0)
    /\ NotOnlyGets
    /\ UNCHANGED <<cfg, rpc, now, calls, grabs>>

\* time passes
Tick ==
    /\ Step
    /\ now' = now + 1
    /\ last' = Op("tick", 0)
    /\ UNCHANGED <<cfg, rpc, pools, wallets, calls, grabs, only_gets, ngets>>

Next ==
    \/ \E c \in Callers : GetBurner(c)
    \/ \E c \in Callers : GetBurnerFunded(c)
    \/ \E c \in Callers : GetBurnerSwarm(c)
    \/ \E c \in Callers : GetBurnerSwarmFunded(c)
    \/ \E c \in Callers : FundingOk(c)
    \/ \E c \in Callers : FundingFail(c)
    \/ \E c \in Callers : Cancel(c)
    \/ MarkWalletUsed
    \/ RotateWallet
    \/ CleanupExpired
    \/ Tick

Spec == Init /\ [][Next]_vars

\* ------------------------------------------- PoolManager used directly
\* The pool manager's own public methods, handed any wallet object made so far.
Wallets == 1..Len(wallets)

PM_AddToReserve ==
    /\ Step
    /\ \E k \in Wallets \cup {0} :
          LET s == IF k = 0 THEN add_to_reserve_new(PM, now) ELSE add_to_reserve(PM, k)
          IN /\ SetPM(s)
             /\ Grab(s, <<>>)
             /\ last' = [Op("add_to_reserve", k) EXCEPT
                            !.from = IF k = 0 THEN "none" ELSE PoolOf(PM, k)]
    /\ NotOnlyGets
    /\ UNCHANGED <<cfg, rpc, now, calls>>

PM_GetFromReserve ==
    /\ Step
    /\ SetPM(get_from_reserve(PM))
    /\ last' = [Op("get_from_reserve", reserve_first(PM)) EXCEPT !.from = "reserve"]
    /\ NotOnlyGets
    /\ UNCHANGED <<cfg, rpc, now, calls, grabs>>

PM_ActivateWallet ==
    /\ Step
    /\ \E k \in Wallets :
          /\ SetPM(activate_wallet(PM, k))
          /\ last' = [Op("activate_wallet", k) EXCEPT !.from = PoolOf(PM, k)]
    /\ NotOnlyGets
    /\ UNCHANGED <<cfg, rpc, now, calls, grabs>>

PM_RetireWallet ==
    /\ Step
    /\ \E k \in Wallets :
          /\ SetPM(retire_wallet(PM, k))
          /\ last' = [Op("retire_wallet", k) EXCEPT !.from = PoolOf(PM, k)]
    /\ NotOnlyGets
    /\ UNCHANGED <<cfg, rpc, now, calls, grabs>>

NextPM ==
    \/ Next
    \/ PM_AddToReserve
    \/ PM_GetFromReserve
    \/ PM_ActivateWallet
    \/ PM_RetireWallet

SpecPM == Init /\ [][NextPM]_vars

PM_MaintainReservePool ==
    /\ Step
    /\ SetPM(maintain_reserve_pool(PM, now))
    /\ Grab(maintain_reserve_pool(PM, now), <<>>)
    /\ last' = [Op("maintain_reserve_pool", 0) EXCEPT
                   !.gen = Generated(maintain_reserve_pool(PM, now))]
    /\ NotOnlyGets
    /\ UNCHANGED <<cfg, rpc, now, calls>>

\* The pool manager alone, without a fabric around it.
NextPool ==
    \/ PM_AddToReserve
    \/ PM_GetFromReserve
    \/ PM_ActivateWallet
    \/ PM_RetireWallet
    \/ PM_MaintainReservePool

SpecPool == Init /\ [][NextPool]_vars

\* get_wallet(public_key) for the key of any wallet made so far and for a key no
\* wallet has; it reads and returns, so a second lookup right after a first one
\* reaches nothing new
PM_GetWallet ==
    /\ last.op # "get_wallet"
    /\ \E k \in 1..(Len(wallets) + 1) :
          last' = [Op("get_wallet", k) EXCEPT !.from = PoolOf(PM, k),
                                              !.out = [result |-> get_wallet(PM, k)]]
    /\ UNCHANGED <<cfg, rpc, pools, wallets, now, calls, grabs, only_gets, ngets, nops>>

\* The pool manager alone, with lookups in between.
NextLookup ==
    \/ NextPool
    \/ PM_GetWallet

SpecLookup == Init /\ [][NextLookup]_vars

\* --------------------------------------- RotationStrategy used directly
\* A RotationStrategy built by a caller, with any settings of its constructor, and
\* asked about the wallets the pool holds.
Strategies ==
    [max_uses : 1..MaxUsesCfg, max_age_hours : 0..MaxAgeCfg,
     rotation_on_time : BOOLEAN, rotation_on_use : BOOLEAN]

\* the sort key of select_rotation_candidates: (usage_count, age in seconds)
priority_key(w, t) == <<w.usage_count, t - w.created_at>>

\* tuple comparison a < b
key_less(a, b) == a[1] < b[1] \/ (a[1] = b[1] /\ a[2] < b[2])

\* x put into a list sorted by descending key, behind the elements whose key is not
\* less than its own
insert_candidate(sorted, x, t) ==
    LET before == {i \in 1..Len(sorted) :
                      \A j \in 1..i : ~key_less(priority_key(sorted[j], t), priority_key(x, t))}
        n == Cardinality(before)
    IN SubSeq(sorted, 1, n) \o <<x>> \o SubSeq(sorted, n + 1, Len(sorted))

\* list.sort(key=..., reverse=True): descending, equal keys keep their order
RECURSIVE sort_candidates(_, _)
sort_candidates(ws, t) ==
    IF ws = <<>> THEN <<>>
    ELSE insert_candidate(sort_candidates(SubSeq(ws, 1, Len(ws) - 1), t), ws[Len(ws)], t)

\* select_rotation_candidates without its sort
select_rotation_candidates_unsorted(rs, ws, count, t) ==
    LET candidates == SelectSeq(ws, LAMBDA w : should_rotate(rs, w, t))
    IN IF count # <<>> /\ count[1] # 0
       THEN IF count[1] > 0
            THEN SubSeq(candidates, 1, IF count[1] < Len(candidates)
                                       THEN count[1] ELSE Len(candidates))
            ELSE SubSeq(candidates, 1, Len(candidates) + count[1])
       ELSE candidates

\* count is <<>> for None and <<n>> for the integer n; `if count:` is false for both
\* None and 0; candidates[:count] counts from the end for a negative count
select_rotation_candidates(rs, ws, count, t) ==
    LET candidates == sort_candidates(SelectSeq(ws, LAMBDA w : should_rotate(rs, w, t)), t)
    IN IF count # <<>> /\ count[1] # 0
       THEN IF count[1] > 0
            THEN SubSeq(candidates, 1, IF count[1] < Len(candidates)
                                       THEN count[1] ELSE Len(candidates))
            ELSE SubSeq(candidates, 1, Len(candidates) + count[1])
       ELSE candidates

\* a recommendation that stops at the first reason it finds
get_rotation_recommendation_first_reason(rs, w, t) ==
    [should_rotate |-> should_rotate(rs, w, t),
     reasons |-> IF rs.rotation_on_use /\ w.usage_count >= rs.max_uses
                 THEN <<"usage">>
                 ELSE IF rs.rotation_on_time /\ is_expired(w, rs.max_age_hours, t)
                      THEN <<"age">> ELSE <<>>,
     usage_count |-> w.usage_count,
     age_hours |-> t - w.created_at,
     max_uses |-> rs.max_uses,
     max_age_hours |-> rs.max_age_hours]

get_rotation_recommendation(rs, w, t) ==
    [should_rotate |-> should_rotate(rs, w, t),
     reasons |-> (IF rs.rotation_on_use /\ w.usage_count >= rs.max_uses
                  THEN <<"usage">> ELSE <<>>)
                 \o (IF rs.rotation_on_time /\ is_expired(w, rs.max_age_hours, t)
                     THEN <<"age">> ELSE <<>>),
     usage_count |-> w.usage_count,
     age_hours |-> t - w.created_at,
     max_uses |-> rs.max_uses,
     max_age_hours |-> rs.max_age_hours]

Reverse(s) == [i \in 1..Len(s) |-> s[Len(s) + 1 - i]]

Objects(ks) == [i \in 1..Len(ks) |-> wallets[ks[i]]]

\* the lists a caller passes: the pools' values, in either order
WalletLists ==
    {Objects(active_pool \o reserve_pool \o retired_pool),
     Reverse(Objects(active_pool \o reserve_pool \o retired_pool)),
     Objects(retired_pool \o reserve_pool)}

Counts == {<<>>} \cup {<<n>> : n \in 0..MaxCount}

\* The three methods read and return; nothing of the pools changes, so a second
\* question right after a first one reaches nothing the first did not.
Questions == {"should_rotate", "select_rotation_candidates", "get_rotation_recommendation"}

RS_ShouldRotate ==
    /\ last.op \notin Questions
    /\ \E rs \in Strategies, k \in Wallets :
          last' = [Op("should_rotate", k) EXCEPT
                      !.out = [rs |-> rs, result |-> should_rotate(rs, wallets[k], now)]]
    /\ UNCHANGED <<cfg, rpc, pools, wallets, now, calls, grabs, only_gets, ngets, nops>>

RS_SelectRotationCandidates ==
    /\ last.op \notin Questions
    /\ \E rs \in Strategies, ws \in WalletLists, count \in Counts :
          last' = [Op("select_rotation_candidates", 0) EXCEPT
                      !.out = [rs |-> rs, wallets |-> ws, count |-> count,
                               result |-> select_rotation_candidates(rs, ws, count, now)]]
    /\ UNCHANGED <<cfg, rpc, pools, wallets, now, calls, grabs, only_gets, ngets, nops>>

RS_GetRotationRecommendation ==
    /\ last.op \notin Questions
    /\ \E rs \in Strategies, k \in Wallets :
          last' = [Op("get_rotation_recommendation", k) EXCEPT
                      !.out = [rs |-> rs,
                               result |-> get_rotation_recommendation(rs, wallets[k], now)]]
    /\ UNCHANGED <<cfg, rpc, pools, wallets, now, calls, grabs, only_gets, ngets, nops>>

\* Wallets are used and age; the strategy is asked in between.
NextRot ==
    \/ MarkWalletUsed
    \/ Tick
    \/ RS_ShouldRotate
    \/ RS_SelectRotationCandidates
    \/ RS_GetRotationRecommendation

SpecRot == Init /\ [][NextRot]_vars

\* ------------------------------------------- get_burner with its arguments
\* how often one get_burner call reaches fund_wallet_jit: once inside the branch of
\* `if auto_fund and source_wallet and funding_amount`, never outside it
funding_calls(r) == IF Funding(r) THEN 1 ELSE 0

\* get_burner(auto_fund, source_wallet, funding_amount): without funding it runs
\* through; with funding it runs up to await fund_wallet_jit(...)
Fab_GetBurner(c) ==
    /\ Step
    /\ calls[c].pc = "idle"
    /\ FirstIdle(c)
    /\ \E r \in Requests :
          IF Funding(r)
          THEN /\ SetPM(burner_start(PM, now))
               /\ Grab(burner_start(PM, now), <<burner_key(PM)>>)
               /\ calls' = [calls EXCEPT ![c] = [Idle EXCEPT !.pc = "funding",
                                                              !.wallet = burner_key(PM)]]
               /\ last' = [Op("get_burner_await", burner_key(PM)) EXCEPT
                              !.out = [request |-> r, funding_calls |-> funding_calls(r)]]
          ELSE /\ SetPM(burner_finish(burner_start(PM, now), now))
               /\ Grab(burner_finish(burner_start(PM, now), now), <<burner_key(PM)>>)
               /\ calls' = calls
               /\ last' = [Op("get_burner", burner_key(PM)) EXCEPT
                              !.gen = Generated(burner_finish(burner_start(PM, now), now)),
                              !.out = [request |-> r, funding_calls |-> funding_calls(r)]]
    /\ NotOnlyGets
    /\ UNCHANGED <<cfg, rpc, now>>

\* Single get_burner requests next to the fabric's synchronous operations.
NextFund ==
    \/ \E c \in Callers : Fab_GetBurner(c)
    \/ \E c \in Callers : FundingOk(c)
    \/ \E c \in Callers : FundingFail(c)
    \/ MarkWalletUsed
    \/ RotateWallet
    \/ CleanupExpired

SpecFund == Init /\ [][NextFund]_vars

\* ----------------------------------------- WalletGenerator and encryption
\* A Keypair is its secret and the public key that belongs to the secret;
\* bytes(keypair) is the secret followed by the public key, and Keypair.from_bytes
\* splits the bytes again.
Keypair(secret) == [secret |-> secret, pubkey |-> <<"pubkey", secret>>]

get_private_key_bytes(keypair) == <<keypair.secret, keypair.pubkey>>

from_bytes(raw) == [secret |-> raw[1], pubkey |-> raw[2]]

Keypairs == {Keypair(n) : n \in 1..MaxKeypairs}

\* password and salt arguments; "None" is Python's None
Passwords == {"None", "", "hunter2", "evalys-default-key"}

\* PBKDF2 is a function of password and salt: the key is named by the two. A
\* password of None becomes the default password, a salt of None the fixed salt.
derive_key(password, salt) ==
    [password |-> IF password = "None" THEN "evalys-default-key" ELSE password,
     salt |-> IF salt = "None" THEN "evalys_salt_12345678" ELSE salt]

\* Fernet(key).encrypt(data): a token under a random IV that holds the data for
\* whoever has the key
IVs == {"iv1", "iv2"}

fernet_encrypt(key, data, iv) == [key |-> key, iv |-> iv, data |-> data]

\* Fernet(key).decrypt(token): <<data>>, or <<>> for InvalidToken raised
fernet_decrypt(key, token) == IF token.key = key THEN <<token.data>> ELSE <<>>

b64encode(raw) == [base64 |-> raw]

b64decode(text) == text.base64

encrypt_key(data, password, iv) ==
    [encrypted_data |-> b64encode(fernet_encrypt(derive_key(password, "None"), data, iv)),
     algorithm |-> "fernet",
     has_password |-> password # "None"]

\* decrypt_key that derives the key of the default password whatever it is given
decrypt_key_default_password(encrypted_data, password) ==
    fernet_decrypt(derive_key("None", "None"), b64decode(encrypted_data.encrypted_data))

decrypt_key(encrypted_data, password) ==
    fernet_decrypt(derive_key(password, "None"), b64decode(encrypted_data.encrypted_data))

encrypt_keypair(keypair, password, iv) ==
    [public_key |-> keypair.pubkey,
     encrypted_private_key |-> encrypt_key(get_private_key_bytes(keypair), password, iv),
     created_at |-> "None"]

\* <<keypair>>, or <<>> when decrypt_key raised
decrypt_keypair(encrypted_data, password) ==
    LET private_key_bytes == decrypt_key(encrypted_data.encrypted_private_key, password)
    IN IF private_key_bytes = <<>> THEN <<>> ELSE <<from_bytes(private_key_bytes[1])>>

WG_EncryptKeypair ==
    /\ last.op # "encrypt_keypair"
    /\ \E keypair \in Keypairs, password \in Passwords, iv \in IVs :
          last' = [Op("encrypt_keypair", 0) EXCEPT
                      !.out = [keypair |-> keypair, password |-> password,
                               result |-> encrypt_keypair(keypair, password, iv)]]
    /\ UNCHANGED <<cfg, rpc, pools, wallets, now, calls, grabs, only_gets, ngets, nops>>

\* decrypt_keypair on what encrypt_keypair returned, with any password
WG_DecryptKeypair ==
    /\ last.op = "encrypt_keypair"
    /\ \E password \in Passwords :
          last' = [Op("decrypt_keypair", 0) EXCEPT
                      !.out = [keypair |-> last.out.keypair,
                               password |-> last.out.password,
                               decrypt_password |-> password,
                               result |-> decrypt_keypair(last.out.result, password)]]
    /\ UNCHANGED <<cfg, rpc, pools, wallets, now, calls, grabs, only_gets, ngets, nops>>

NextEnc ==
    \/ WG_EncryptKeypair
    \/ WG_DecryptKeypair

SpecEnc == Init /\ [][NextEnc]_vars

\* ------------------------------------------------- a reserve stocked by hand
\* pool_manager.add_to_reserve() with no wallet: one more wallet is generated and
\* put in the reserve, which may then stand above min_reserve_size
PM_AddNewToReserve ==
    /\ Step
    /\ SetPM(add_to_reserve_new(PM, now))
    /\ Grab(add_to_reserve_new(PM, now), <<>>)
    /\ last' = [Op("add_to_reserve", Len(wallets) + 1) EXCEPT !.gen = 1]
    /\ NotOnlyGets
    /\ UNCHANGED <<cfg, rpc, now, calls>>

\* Single get_burner calls and the fabric's synchronous operations over a reserve
\* that is also stocked by hand.
NextStock ==
    \/ \E c \in Callers : GetBurner(c)
    \/ \E c \in Callers : GetBurnerFunded(c)
    \/ \E c \in Callers : FundingOk(c)
    \/ \E c \in Callers : FundingFail(c)
    \/ MarkWalletUsed
    \/ RotateWallet
    \/ CleanupExpired
    \/ PM_AddNewToReserve

SpecStock == Init /\ [][NextStock]_vars

\* ----------------------------------------------------------- FundingManager
\* The funding manager's client and the count of clients constructed, as one value.
FM == [client |-> client, made |-> made]

\* connect: a client is constructed only when there is none; the body has no await
connect(fm) ==
    IF fm.client = 0 THEN [client |-> fm.made + 1, made |-> fm.made + 1] ELSE fm

SetFM(fm) == client' = fm.client /\ made' = fm.made

\* the awaits at which a funding-manager coroutine can stand
RpcCalls == {"get_latest_blockhash", "send_transaction", "get_balance"}

\* fund_wallet up to its first RPC: connect, then self.client.get_latest_blockhash
FM_FundWallet(c) ==
    /\ Step
    /\ calls[c].pc = "idle"
    /\ FirstIdle(c)
    /\ SetFM(connect(FM))
    /\ calls' = [calls EXCEPT ![c] = [Idle EXCEPT !.pc = "get_latest_blockhash"]]
    /\ last' = [Op("get_latest_blockhash", 0) EXCEPT !.out = [client |-> connect(FM).client]]
    /\ NotOnlyGets
    /\ UNCHANGED <<cfg, pools, wallets, now, grabs>>

\* the blockhash arrived: fund_wallet builds the transaction and evaluates
\* self.client.send_transaction; with client None that is an AttributeError, which
\* the except branch logs and re-raises
FM_SendTransaction(c) ==
    /\ Step
    /\ calls[c].pc = "get_latest_blockhash"
    /\ calls' = [calls EXCEPT ![c] =
                   IF client = 0 THEN Idle ELSE [Idle EXCEPT !.pc = "send_transaction"]]
    /\ last' = [Op("send_transaction", 0) EXCEPT !.out = [client |-> client]]
    /\ NotOnlyGets
    /\ UNCHANGED <<cfg, rpc, pools, wallets, now, grabs>>

\* get_balance up to its RPC: connect, then self.client.get_balance
FM_GetBalance(c) ==
    /\ Step
    /\ calls[c].pc = "idle"
    /\ FirstIdle(c)
    /\ SetFM(connect(FM))
    /\ calls' = [calls EXCEPT ![c] = [Idle EXCEPT !.pc = "get_balance"]]
    /\ last' = [Op("get_balance", 0) EXCEPT !.out = [client |-> connect(FM).client]]
    /\ NotOnlyGets
    /\ UNCHANGED <<cfg, pools, wallets, now, grabs>>

\* an RPC returned its last answer or raised: the coroutine returns or re-raises
FM_RpcDone(c) ==
    /\ Step
    /\ calls[c].pc \in RpcCalls
    /\ calls' = [calls EXCEPT ![c] = Idle]
    /\ last' = Op("rpc_done", 0)
    /\ NotOnlyGets
    /\ UNCHANGED <<cfg, rpc, pools, wallets, now, grabs>>

\* disconnect (BurnerSwarmFabric.close): nothing without a client; otherwise
\* await self.client.close(), which may or may not suspend, then client = None
FM_Disconnect(c) ==
    /\ Step
    /\ calls[c].pc = "idle"
    /\ FirstIdle(c)
    /\ \/ /\ client' = 0
          /\ UNCHANGED calls
       \/ /\ client # 0
          /\ client' = client
          /\ calls' = [calls EXCEPT ![c] = [Idle EXCEPT !.pc = "close"]]
    /\ last' = Op("disconnect", 0)
    /\ NotOnlyGets
    /\ UNCHANGED <<cfg, made, pools, wallets, now, grabs>>

\* client.close() returned: self.client = None
FM_Disconnected(c) ==
    /\ Step
    /\ calls[c].pc = "close"
    /\ client' = 0
    /\ calls' = [calls EXCEPT ![c] = Idle]
    /\ last' = Op("disconnected", 0)
    /\ NotOnlyGets
    /\ UNCHANGED <<cfg, made, pools, wallets, now, grabs>>

NextRpc ==
    \/ \E c \in Callers : FM_FundWallet(c)
    \/ \E c \in Callers : FM_SendTransaction(c)
    \/ \E c \in Callers : FM_GetBalance(c)
    \/ \E c \in Callers : FM_RpcDone(c)
    \/ \E c \in Callers : FM_Disconnect(c)
    \/ \E c \in Callers : FM_Disconnected(c)

SpecRpc == Init /\ [][NextRpc]_vars

\* ------------------------------------------------------------------ claims
InPool(pool, k) == k \in Range(pool)

Intact(k) == wallets[k].keypair # NoKey /\ wallets[k].encrypted_private_key # NoKey

Cleared(w) == w.keypair = NoKey /\ w.encrypted_private_key = NoKey

\* C1: whatever the fabric's operations did and however they interleaved, every
\* wallet made so far is keyed in exactly one of the three pools, once: none in two
\* pools, none lost, also while a get_burner call waits at its await.
C1_ExactlyOnePool ==
    \A k \in 1..Len(wallets) :
        Count(active_pool, k) + Count(reserve_pool, k) + Count(retired_pool, k) = 1

\* a get_burner call waits for its funding while each pool holds a wallet
C1_Witness ==
    /\ \E c \in Callers : calls[c].pc = "funding" /\ InPool(active_pool, calls[c].wallet)
    /\ reserve_pool # <<>>
    /\ retired_pool # <<>>

\* C2: under the pool manager's and the fabric's public operations a wallet's status
\* only moves reserve -> active, active -> retired or reserve -> retired.
AllowedTransitions ==
    {<<"reserve", "active">>, <<"active", "retired">>, <<"reserve", "retired">>}

C2_MonotonicStatus ==
    [][\A k \in 1..Len(wallets) :
          \/ wallets'[k].status = wallets[k].status
          \/ <<wallets[k].status, wallets'[k].status>> \in AllowedTransitions]_vars

\* C3: retire_wallet(w) leaves w in the retired pool with status retired and both
\* secrets cleared, changes none of public_key, created_at and usage_count, and a
\* second retire_wallet(w) changes nothing more; every wallet of the retired pool
\* has both secrets cleared in every reachable state.
C3_RetireWipes ==
    /\ \A k \in Range(retired_pool) : Cleared(wallets[k])
    /\ \A k \in 1..Len(wallets) :
          LET r == retire_wallet(PM, k)
          IN /\ Cleared(r.wallets[k])
             /\ r.wallets[k].status = "retired"
             /\ PoolOf(r, k) = "retired"
             /\ r.wallets[k].public_key = wallets[k].public_key
             /\ r.wallets[k].created_at = wallets[k].created_at
             /\ r.wallets[k].usage_count = wallets[k].usage_count
             /\ retire_wallet(r, k) = r

\* a wallet that held its secrets was retired, and another operation came after
C3_Witness ==
    /\ last.op = "mark_wallet_used"
    /\ \E k \in Range(retired_pool) :
          k # last.w /\ Cleared(wallets[k]) /\ wallets[k].status = "retired"

\* C4: with rotation on use and max_uses >= 1 no wallet is ever used more than
\* max_uses times, whichever pooled wallet mark_wallet_used is handed.
C4_AtMostMaxUses ==
    (rotation_strategy.rotation_on_use /\ max_uses >= 1) =>
        \A k \in 1..Len(wallets) : wallets[k].usage_count <= max_uses

\* C5 as claimed: every finished get_burner (returning or failing on its funding),
\* mark_wallet_used and rotate_wallet leaves the reserve at or above its floor.
C5_ReserveFloorAfterEveryCall ==
    last.op \in {"get_burner", "get_burner_error", "mark_wallet_used", "rotate_wallet"}
        => Len(reserve_pool) >= min_reserve_size

\* C5 as amended: a get_burner that returns its wallet, a rotate_wallet and a
\* mark_wallet_used that rotates leave the reserve at or above its floor.
C5_ReserveFloorAfterReplenish ==
    (\/ last.op \in {"get_burner", "rotate_wallet"}
     \/ last.op = "mark_wallet_used" /\ last.rotated)
        => Len(reserve_pool) >= min_reserve_size

\* a get_burner returned after it had to refill the reserve
C5_Witness ==
    /\ last.op = "get_burner"
    /\ last.gen >= 1
    /\ min_reserve_size >= 1
    /\ Len(reserve_pool) >= min_reserve_size

\* C6: the active pool never holds more than max_active_size wallets.
C6_ActiveWithinMax == Len(active_pool) <= max_active_size

\* C7: no two get_burner calls, however they interleave, obtain the same wallet.
C7_DistinctBurners ==
    /\ \A k \in 1..Len(grabs) : grabs[k] <= 1
    /\ \A c, d \in Callers :
          (c # d /\ calls[c].pc = "funding" /\ calls[d].pc = "funding")
              => calls[c].wallet # calls[d].wallet

\* two get_burner calls wait for their funding at the same time
C7_Witness ==
    \A c \in Callers : calls[c].pc = "funding" /\ grabs[calls[c].wallet] = 1

\* C8: from construction, after the i-th of a run of get_burner calls without
\* funding the reserve holds min_reserve_size wallets, the active pool i, the
\* retired pool none.
C8_SequentialGets ==
    only_gets =>
        /\ Len(reserve_pool) = min_reserve_size
        /\ Len(active_pool) = ngets
        /\ retired_pool = <<>>

\* three get_burner calls in a row on a fabric with a reserve
C8_Witness ==
    only_gets /\ ngets = 3 /\ min_reserve_size >= 1 /\ last.op = "get_burner"

\* C9 as claimed: with max_uses = 1, mark_wallet_used on an active wallet retires it
\* and generates exactly one wallet for the reserve.
C9_ExactlyOneGenerated ==
    (last.op = "mark_wallet_used" /\ last.from = "active" /\ max_uses = 1) =>
        /\ PoolOf(PM, last.w) = "retired"
        /\ last.gen = 1

\* C9 as amended: it retires the wallet and generates what the reserve lacked before
\* the call, max(0, min_reserve_size - len(reserve_pool)) wallets.
C9_RetiresAndTopsUp ==
    (last.op = "mark_wallet_used" /\ last.from = "active" /\ max_uses = 1) =>
        /\ PoolOf(PM, last.w) = "retired"
        /\ wallets[last.w].status = "retired"
        /\ ~InPool(active_pool, last.w)
        /\ last.gen = Max(0, min_reserve_size - (Len(reserve_pool) - last.gen))
        /\ Len(reserve_pool) >= min_reserve_size

\* the wallet of a finished get_burner is marked used: the reserve was full
C9_Witness ==
    /\ last.op = "mark_wallet_used" /\ last.from = "active" /\ max_uses = 1
    /\ grabs[last.w] = 1
    /\ \A c \in Callers : calls[c].pc = "idle"
    /\ PoolOf(PM, last.w) = "retired"
    /\ min_reserve_size >= 1
    /\ last.gen = 0

\* C10: the step in which get_burner's funding call fails ends the call and changes
\* no pool and no wallet: the wallet taken stays in the pool and the status it had,
\* with its secrets, and the call does not go back to wait for a second funding.
C10_FundingFailureKeepsActivation ==
    [][\A c \in Callers :
          (calls[c].pc = "funding" /\ calls'[c].pc # "funding"
           /\ last'.op = "get_burner_error")
              => /\ last'.w = calls[c].wallet
                 /\ calls'[c] = Idle
                 /\ UNCHANGED <<active_pool, reserve_pool, retired_pool, wallets>>]_vars

\* a funding call failed and its wallet is active, with its secrets
C10_Witness ==
    /\ last.op = "get_burner_error"
    /\ PoolOf(PM, last.w) = "active"
    /\ wallets[last.w].status = "active"
    /\ Intact(last.w)
    /\ \A c \in Callers : calls[c].pc = "idle"

Distinct(seq) == \A i, j \in 1..Len(seq) : i # j => seq[i] # seq[j]

\* C11: a get_burner_swarm(count) that runs without suspending (no funding, or
\* count = 0) returns a list of exactly count wallets, pairwise distinct, each active
\* and in the active pool, and the active pool has grown by exactly count wallets:
\* count get_burner calls, one after the other.
C11_SwarmOfCount ==
    [][(last'.op = "get_burner_swarm" /\ calls' = calls) =>
          /\ Len(last'.ret) = last'.count
          /\ Distinct(last'.ret)
          /\ \A i \in 1..Len(last'.ret) :
                /\ InPool(active_pool', last'.ret[i])
                /\ ~InPool(active_pool, last'.ret[i])
                /\ wallets'[last'.ret[i]].status = "active"
                /\ grabs'[last'.ret[i]] = 1
          /\ Len(active_pool') = Len(active_pool) + last'.count]_vars

\* a swarm of two was returned without funding
C11_Witness ==
    /\ last.op = "get_burner_swarm"
    /\ last.count = 2
    /\ Len(last.ret) = 2
    /\ \A c \in Callers : calls[c].pc = "idle"
    /\ \A i \in 1..2 : InPool(active_pool, last.ret[i])

\* C12: the step in which a get_burner_swarm is aborted, by a funding call that fails
\* or by a cancellation at the funding await, ends the request without a list,
\* takes no further wallet and changes no pool and no wallet: the wallets the swarm
\* had activated (the one being funded included) that are active stay active, and
\* nothing is retired in compensation.
C12_SwarmAbortKeepsActivated ==
    [][\A c \in Callers :
          (/\ calls[c].pc = "funding" /\ calls[c].swarm
           /\ calls'[c].pc # "funding"
           /\ last'.op \in {"get_burner_error", "get_burner_cancelled"})
              => /\ calls'[c] = Idle
                 /\ \A d \in Callers \ {c} : calls'[d] = calls[d]
                 /\ last'.ret = <<>>
                 /\ last'.taken = Append(calls[c].got, calls[c].wallet)
                 /\ UNCHANGED <<active_pool, reserve_pool, retired_pool, wallets, grabs>>
                 /\ \A i \in 1..Len(last'.taken) :
                       PoolOf(PM, last'.taken[i]) = "active"
                           => /\ InPool(active_pool', last'.taken[i])
                              /\ wallets'[last'.taken[i]].status = "active"
                              /\ wallets'[last'.taken[i]].keypair # NoKey]_vars

\* the second funding call of a swarm failed: both wallets are active
C12_Witness ==
    /\ last.op = "get_burner_error"
    /\ Len(last.taken) = 2
    /\ \A c \in Callers : calls[c].pc = "idle"
    /\ \A i \in 1..2 :
          /\ PoolOf(PM, last.taken[i]) = "active"
          /\ wallets[last.taken[i]].status = "active"
          /\ Intact(last.taken[i])

\* C13: maintain_reserve_pool, from any reserve size, returns with the reserve at or
\* above min_reserve_size; it generates exactly max(0, min_reserve_size - previous
\* size) wallets, all appended to the reserve, keeps every wallet the reserve held,
\* and changes nothing when the reserve was at or above the floor.
C13_MaintainReachesFloor ==
    [][last'.op = "maintain_reserve_pool" =>
          LET needed == Max(0, min_reserve_size - Len(reserve_pool))
          IN /\ Len(reserve_pool') >= min_reserve_size
             /\ Len(wallets') = Len(wallets) + needed
             /\ last'.gen = needed
             /\ Len(reserve_pool') = Len(reserve_pool) + needed
             /\ SubSeq(reserve_pool', 1, Len(reserve_pool)) = reserve_pool
             /\ \A k \in (Len(wallets) + 1)..Len(wallets') :
                   InPool(reserve_pool', k) /\ wallets'[k].status = "reserve"
             /\ \A k \in 1..Len(wallets) : wallets'[k] = wallets[k]
             /\ UNCHANGED <<active_pool, retired_pool>>
             /\ (Len(reserve_pool) >= min_reserve_size
                    => UNCHANGED <<reserve_pool, wallets>>)]_vars

\* maintain_reserve_pool refilled a reserve that had been drained
C13_Witness ==
    /\ last.op = "maintain_reserve_pool"
    /\ last.gen >= 1
    /\ min_reserve_size >= 1
    /\ Len(reserve_pool) = min_reserve_size
    /\ Len(wallets) > min_reserve_size

\* the age of wallet k, in hours, is strictly greater than m
Older(k, m) == now - wallets[k].created_at > m

\* C14 as claimed: after cleanup_expired_wallets with max_age_hours = 0 the stats
\* show no active and no reserve wallet, whatever the wallets' ages.
C14_SweepZeroEmptiesPools ==
    (last.op = "cleanup_expired_wallets" /\ max_age_hours = 0) =>
        /\ get_pool_stats(PM).active = 0
        /\ get_pool_stats(PM).reserve = 0

\* C14 as amended: the sweep with max_age_hours = 0 retires the active and reserve
\* wallets created before the instant of the sweep; a wallet created at that instant
\* has age 0, is not expired and stays where it is.
C14_SweepZeroKeepsAgeZero ==
    [][(last'.op = "cleanup_expired_wallets" /\ max_age_hours = 0) =>
          /\ active_pool' = SelectSeq(active_pool, LAMBDA k : wallets[k].created_at = now)
          /\ reserve_pool' = SelectSeq(reserve_pool, LAMBDA k : wallets[k].created_at = now)
          /\ \A k \in Range(active_pool) \cup Range(reserve_pool) :
                wallets[k].created_at < now => InPool(retired_pool', k)]_vars

\* a sweep retired an older wallet and left one made at the instant of the sweep
C14_Witness ==
    /\ last.op = "cleanup_expired_wallets"
    /\ max_age_hours = 0
    /\ \E k \in Range(retired_pool) : wallets[k].created_at < now
    /\ \E k \in Range(active_pool) \cup Range(reserve_pool) : wallets[k].created_at = now

\* C15: cleanup_expired_wallets(m) retires exactly the active and reserve wallets
\* whose age is strictly greater than m, in the order active then reserve; the other
\* active and reserve wallets stay in their pools unchanged, retired wallets are
\* untouched, and no wallet is generated.
C15_SweepRetiresExactlyExpired ==
    \A m \in 0..(MaxAgeCfg + 1) :
        LET r == cleanup_expired_wallets(PM, m, now)
            swept == SelectSeq(active_pool, LAMBDA k : Older(k, m))
                         \o SelectSeq(reserve_pool, LAMBDA k : Older(k, m))
        IN /\ r.active = SelectSeq(active_pool, LAMBDA k : ~Older(k, m))
           /\ r.reserve = SelectSeq(reserve_pool, LAMBDA k : ~Older(k, m))
           /\ r.retired = retired_pool \o swept
           /\ Len(r.wallets) = Len(wallets)
           /\ \A k \in 1..Len(wallets) :
                 IF k \in Range(swept)
                 THEN /\ r.wallets[k].status = "retired"
                      /\ Cleared(r.wallets[k])
                 ELSE r.wallets[k] = wallets[k]

\* the fabric's sweep emptied the reserve and generated nothing to refill it
C15_Witness ==
    /\ last.op = "cleanup_expired_wallets"
    /\ last.gen = 0
    /\ Len(reserve_pool) < min_reserve_size
    /\ retired_pool # <<>>
    /\ \A k \in Range(retired_pool) : Older(k, max_age_hours)

\* what the rotation rule says of wallet object w under the settings rs
UsageReached(rs, w) == rs.rotation_on_use /\ w.usage_count >= rs.max_uses

AgeExceeded(rs, w) == rs.rotation_on_time /\ now - w.created_at > rs.max_age_hours

\* C16: for every wallet and every setting of max_uses, max_age_hours and the two
\* toggles, should_rotate returns true exactly when (rotation_on_use and usage_count
\* >= max_uses) or (rotation_on_time and age > max_age_hours); false with both
\* toggles off.
C16_ShouldRotateIff ==
    last.op = "should_rotate" =>
        /\ last.out.result =
              (UsageReached(last.out.rs, wallets[last.w])
                   \/ AgeExceeded(last.out.rs, wallets[last.w]))
        /\ (~last.out.rs.rotation_on_use /\ ~last.out.rs.rotation_on_time)
               => last.out.result = FALSE

\* a wallet used up to max_uses, asked with rotation_on_use off: time decides
C16_Witness ==
    /\ last.op = "should_rotate"
    /\ ~last.out.rs.rotation_on_use
    /\ last.out.rs.rotation_on_time
    /\ wallets[last.w].usage_count >= last.out.rs.max_uses
    /\ last.out.result = TRUE

\* should_rotate never goes from true to false as the usage count of a wallet of ws
\* grows, at the time t and under any strategy with rotation_on_use on
MonotonicInUsage(ws, t) ==
    \A rs \in Strategies : \A k \in 1..Len(ws) : \A j \in 0..MaxOps :
        (rs.rotation_on_use /\ should_rotate(rs, ws[k], t))
            => should_rotate(rs, [ws[k] EXCEPT !.usage_count = @ + j], t)

\* C17: with rotation_on_use on and the age fixed, should_rotate true at a usage
\* count stays true at every higher one (looked at before and after every step that
\* uses a wallet or lets time pass); and a wallet for which should_rotate is true
\* keeps it true through every later use and as time passes, so mark_wallet_used on
\* it rotates again.
C17_ShouldRotateMonotonic ==
    [][/\ (last.op \notin Questions /\ last'.op \notin Questions)
              => MonotonicInUsage(wallets, now) /\ MonotonicInUsage(wallets', now')
       /\ \A k \in 1..Len(wallets) :
             should_rotate(rotation_strategy, wallets[k], now)
                 => should_rotate(rotation_strategy, wallets'[k], now')
       /\ (/\ last'.op = "mark_wallet_used"
           /\ should_rotate(rotation_strategy, wallets[last'.w], now))
              => last'.rotated]_vars

\* a wallet that mark_wallet_used had retired is marked used once more
C17_Witness ==
    /\ last.op = "mark_wallet_used"
    /\ last.from = "retired"
    /\ last.rotated
    /\ wallets[last.w].usage_count > max_uses

\* C18: without a limit select_rotation_candidates returns exactly the wallets of
\* its input for which should_rotate is true, each as often as the input has it,
\* ordered by usage_count descending and, among equal usage counts, by age
\* descending.
C18_CandidatesFilteredAndSorted ==
    (last.op = "select_rotation_candidates" /\ last.out.count = <<>>) =>
        LET res == last.out.result
            ws == last.out.wallets
        IN /\ \A w \in Range(ws) \cup Range(res) :
                 Count(res, w) = IF should_rotate(last.out.rs, w, now)
                                 THEN Count(ws, w) ELSE 0
           /\ \A i, j \in 1..Len(res) :
                 i < j => \/ res[i].usage_count > res[j].usage_count
                          \/ /\ res[i].usage_count = res[j].usage_count
                             /\ now - res[i].created_at >= now - res[j].created_at

\* two candidates came back in another order than they went in
C18_Witness ==
    /\ last.op = "select_rotation_candidates"
    /\ last.out.count = <<>>
    /\ Len(last.out.result) >= 2
    /\ last.out.result #
          SelectSeq(last.out.wallets, LAMBDA w : should_rotate(last.out.rs, w, now))

\* C19: with a limit count >= 0 select_rotation_candidates returns at most count
\* wallets, the first count of the unlimited ordered list.
C19_LimitRespected ==
    (/\ last.op = "select_rotation_candidates"
     /\ last.out.count # <<>>
     /\ last.out.count[1] >= 0) =>
        LET res == last.out.result
            all == select_rotation_candidates(last.out.rs, last.out.wallets, <<>>, now)
            n == IF last.out.count[1] < Len(all) THEN last.out.count[1] ELSE Len(all)
        IN /\ Len(res) <= last.out.count[1]
           /\ res = SubSeq(all, 1, n)

\* C20: get_rotation_recommendation lists the usage reason exactly when
\* rotation_on_use and usage_count >= max_uses, the age reason exactly when
\* rotation_on_time and the wallet is expired, both when both hold, and reports
\* should_rotate true exactly when it lists a reason.
C20_RecommendationListsEveryReason ==
    last.op = "get_rotation_recommendation" =>
        LET rec == last.out.result
            rs == last.out.rs
            w == wallets[last.w]
        IN /\ ("usage" \in Range(rec.reasons)) = UsageReached(rs, w)
           /\ ("age" \in Range(rec.reasons)) = AgeExceeded(rs, w)
           /\ Len(rec.reasons) =
                 (IF UsageReached(rs, w) THEN 1 ELSE 0) + (IF AgeExceeded(rs, w) THEN 1 ELSE 0)
           /\ rec.should_rotate = (rec.reasons # <<>>)

\* a wallet both used up and too old: two reasons
C20_Witness ==
    /\ last.op = "get_rotation_recommendation"
    /\ last.out.result.reasons = <<"usage", "age">>
    /\ last.out.result.should_rotate = TRUE

\* C21: a mark_wallet_used call raises the usage_count of its wallet by exactly 1 and
\* of no other wallet; no other operation changes any usage_count; a generated
\* wallet starts at usage_count 0, and no operation changes a wallet's created_at.
C21_UsageCountsByOne ==
    [][/\ Len(wallets') >= Len(wallets)
       /\ \A k \in 1..Len(wallets) :
             /\ wallets'[k].created_at = wallets[k].created_at
             /\ wallets'[k].usage_count >= wallets[k].usage_count
             /\ wallets'[k].usage_count - wallets[k].usage_count =
                   (IF last'.op = "mark_wallet_used" /\ last'.w = k THEN 1 ELSE 0)
       /\ \A k \in (Len(wallets) + 1)..Len(wallets') : wallets'[k].usage_count = 0]_vars

\* a wallet used for the second time, next to a wallet never used
C21_Witness ==
    /\ last.op = "mark_wallet_used"
    /\ wallets[last.w].usage_count = 2
    /\ \E k \in 1..Len(wallets) : k # last.w /\ wallets[k].usage_count = 0

\* C22: mark_wallet_used counts the use and then asks should_rotate about the wallet
\* as counted. If it says yes, the call leaves the wallet in retired_pool only, with
\* status retired and its secrets cleared, and the reserve at min_reserve_size or
\* above. If it says no, the three pools are as before, no wallet was generated, and
\* nothing of any wallet changed but the use recorded on this one: a wallet that
\* had its secrets still has them. No operation other than mark_wallet_used, the
\* manual rotate_wallet and the sweep retires a wallet.
C22_MarkRetiresIffShouldRotate ==
    [][/\ last'.op \notin {"mark_wallet_used", "rotate_wallet", "cleanup_expired_wallets"}
             => retired_pool' = retired_pool
       /\ last'.op = "mark_wallet_used" =>
             LET k == last'.w
                 used == mark_used(wallets[k], now)
             IN IF should_rotate(rotation_strategy, used, now)
                THEN /\ last'.rotated
                     /\ InPool(retired_pool', k)
                     /\ ~InPool(active_pool', k)
                     /\ ~InPool(reserve_pool', k)
                     /\ wallets'[k].status = "retired"
                     /\ Cleared(wallets'[k])
                     /\ wallets'[k].usage_count = used.usage_count
                     /\ Len(reserve_pool') >= min_reserve_size
                ELSE /\ ~last'.rotated
                     /\ pools' = pools
                     /\ Len(wallets') = Len(wallets)
                     /\ wallets' = [wallets EXCEPT ![k] = used]
                     /\ wallets'[k].status = wallets[k].status
                     /\ Intact(k) => /\ wallets'[k].keypair # NoKey
                                     /\ wallets'[k].encrypted_private_key # NoKey]_vars

\* an active wallet used once under max_uses 2: it stays active with its secrets
C22_Witness ==
    /\ last.op = "mark_wallet_used"
    /\ ~last.rotated
    /\ last.from = "active"
    /\ InPool(active_pool, last.w)
    /\ wallets[last.w].usage_count = 1
    /\ Intact(last.w)

\* C23: after rotate_wallet(w), whatever w's usage_count and age and whichever pool
\* it was in, w is in retired_pool and in no other pool, has status retired and
\* cleared secrets, and the reserve holds at least min_reserve_size wallets.
C23_RotateRetiresUnconditionally ==
    last.op = "rotate_wallet" =>
        /\ InPool(retired_pool, last.w)
        /\ ~InPool(active_pool, last.w)
        /\ ~InPool(reserve_pool, last.w)
        /\ wallets[last.w].status = "retired"
        /\ Cleared(wallets[last.w])
        /\ Len(reserve_pool) >= min_reserve_size

\* a reserve wallet never used and of age 0, rotated by hand and replaced
C23_Witness ==
    /\ last.op = "rotate_wallet"
    /\ last.from = "reserve"
    /\ wallets[last.w].usage_count = 0
    /\ now = wallets[last.w].created_at
    /\ max_uses = 2
    /\ last.gen = 1
    /\ InPool(retired_pool, last.w)

\* C24: add_to_reserve(wallet) for a wallet whose key is in active_pool or in
\* retired_pool is refused: the three pools and every wallet, the status of the
\* wallet included, are as they were before the call.
C24_AddToReserveRefusesDuplicate ==
    [][(last'.op = "add_to_reserve" /\ last'.from \in {"active", "retired"}) =>
          /\ pools' = pools
          /\ wallets' = wallets]_vars

\* C25: activate_wallet on a wallet that is in active_pool with status active
\* changes nothing: the three pools, their order included, and every wallet record
\* are as before, and the wallet handed back is the one handed in.
C25_ActivateIdempotent ==
    [][(/\ last'.op = "activate_wallet"
        /\ InPool(active_pool, last'.w)
        /\ wallets[last'.w].status = "active") =>
          /\ pools' = pools
          /\ wallets' = wallets
          /\ activate_wallet(PM, last'.w) = PM]_vars

\* the second of two activations of the same wallet
C25_Witness ==
    /\ last.op = "activate_wallet"
    /\ last.from = "active"
    /\ nops = 2
    /\ InPool(active_pool, last.w)
    /\ wallets[last.w].status = "active"

\* C26: while a get_burner call waits at its await for the funding, every pool
\* operation of another request can run from start to end with the first call still
\* waiting: get_burner with and without funding, mark_wallet_used, rotate_wallet,
\* cleanup_expired_wallets; get_pool_stats reads the pools as they are.
C26_FundingDoesNotBlock ==
    \A c \in Callers :
        (calls[c].pc = "funding" /\ nops < MaxOps) =>
            /\ ENABLED (MarkWalletUsed /\ calls'[c].pc = "funding")
            /\ ENABLED (RotateWallet /\ calls'[c].pc = "funding")
            /\ ENABLED (CleanupExpired /\ calls'[c].pc = "funding")
            /\ (\E d \in Callers : calls[d].pc = "idle") =>
                  /\ ENABLED (/\ \E d \in Callers : Fab_GetBurner(d)
                              /\ last'.op = "get_burner"
                              /\ calls'[c].pc = "funding")
                  /\ ENABLED (/\ \E d \in Callers : Fab_GetBurner(d)
                              /\ last'.op = "get_burner_await"
                              /\ calls'[c].pc = "funding")
            /\ get_pool_stats(PM).active = Len(active_pool)
            /\ get_pool_stats(PM).total =
                  Len(active_pool) + Len(reserve_pool) + Len(retired_pool)

\* the wallet of a call that still waits for its funding has been marked as used
\* by another request
C26_Witness ==
    \E c \in Callers :
        /\ calls[c].pc = "funding"
        /\ last.op = "mark_wallet_used"
        /\ last.w = calls[c].wallet
        /\ \E d \in Callers : calls[d].pc = "idle"

\* C30: get_burner calls the funding service exactly once when auto_fund is set and
\* a source wallet and a funding amount are given, and not at all otherwise; a call
\* that does not fund still returns its wallet activated, with the reserve at
\* min_reserve_size or above.
C30_FundsOnceWhenSupplied ==
    (last.op \in {"get_burner", "get_burner_await"} /\ last.out # <<>>) =>
        LET r == last.out.request
            supplied == r.auto_fund /\ r.source_wallet /\ r.funding_amount # "None"
        IN /\ last.out.funding_calls = (IF supplied THEN 1 ELSE 0)
           /\ last.out.funding_calls = 0 =>
                 /\ last.op = "get_burner"
                 /\ InPool(active_pool, last.w)
                 /\ wallets[last.w].status = "active"
                 /\ Len(reserve_pool) >= min_reserve_size

\* C27: get_wallet(key) returns the wallet with that key when the key is in
\* active_pool, reserve_pool or retired_pool, and None exactly when it is in none of
\* the three; the call changes no pool and no wallet.
C27_GetWalletFindsInAnyPool ==
    [][last'.op = "get_wallet" =>
          LET k == last'.w
              res == last'.out.result
              found == InPool(active_pool, k) \/ InPool(reserve_pool, k)
                          \/ InPool(retired_pool, k)
          IN /\ (res = 0) = ~found
             /\ found => (res = k /\ wallets[res].public_key = k)
             /\ pools' = pools
             /\ wallets' = wallets]_vars

\* a wallet found in the pool searched last
C27_Witness ==
    /\ last.op = "get_wallet"
    /\ last.from = "retired"
    /\ last.out.result = last.w
    /\ InPool(retired_pool, last.w)
    /\ ~InPool(active_pool, last.w)
    /\ ~InPool(reserve_pool, last.w)

\* C29: for every keypair and every password, None included, decrypt_keypair with
\* the password encrypt_keypair was given returns a keypair, and that keypair has
\* the key bytes and the public key of the one encrypted.
C29_EncryptionRoundTrip ==
    (last.op = "decrypt_keypair" /\ last.out.decrypt_password = last.out.password) =>
        /\ last.out.result # <<>>
        /\ get_private_key_bytes(last.out.result[1]) = get_private_key_bytes(last.out.keypair)
        /\ last.out.result[1].pubkey = last.out.keypair.pubkey

\* a keypair encrypted and decrypted under a password of the caller
C29_Witness ==
    /\ last.op = "decrypt_keypair"
    /\ last.out.password = "hunter2"
    /\ last.out.decrypt_password = "hunter2"
    /\ last.out.result = <<last.out.keypair>>

C31_StatusAgreesWithPool ==
    \A k \in 1..Len(wallets) :
        /\ InPool(active_pool, k) => (wallets[k].status = "active" /\ Intact(k))
        /\ InPool(reserve_pool, k) => (wallets[k].status = "reserve" /\ Intact(k))
        /\ InPool(retired_pool, k) => wallets[k].status = "retired"

\* all three pools hold a wallet, the retired one put there while a get_burner call
\* waited for its funding
C31_Witness ==
    /\ active_pool # <<>>
    /\ reserve_pool # <<>>
    /\ retired_pool # <<>>
    /\ \E c \in Callers : calls[c].pc = "funding"
    /\ last.op \in {"rotate_wallet", "mark_wallet_used", "cleanup_expired_wallets"}

\* C32: when a get_burner call returns, the wallet it returns is in active_pool, has
\* status active and still has its keypair, whatever other requests did while the
\* call waited for its funding.
C32_ReturnedBurnerIsActive ==
    last.op = "get_burner" =>
        /\ InPool(active_pool, last.w)
        /\ wallets[last.w].status = "active"
        /\ wallets[last.w].keypair # NoKey

\* C33: whenever fund_wallet or get_balance issues an RPC call, the client it calls
\* is not None, whatever disconnects other requests made meanwhile; connect on a
\* manager that has a client keeps that client and constructs no other.
C33_RpcSeesClient ==
    /\ last.op \in RpcCalls => last.out.client # 0
    /\ connect(connect(FM)) = connect(FM)
    /\ client # 0 => connect(FM) = FM

\* C34: whenever no get_burner call is waiting at its await, get_pool_stats().total
\* is the number of wallets generated so far; no step makes the total smaller; and a
\* get_burner call that finds wallets in the reserve takes the one that entered the
\* reserve before all the others there (wallets enter the reserve when they are
\* generated, so that is the one generated first).
C34_ConservationAndFifo ==
    /\ []((\A c \in Callers : calls[c].pc = "idle") =>
              get_pool_stats(PM).total = Len(wallets))
    /\ [][/\ Len(active_pool') + Len(reserve_pool') + Len(retired_pool') >=
                Len(active_pool) + Len(reserve_pool) + Len(retired_pool)
           /\ (/\ last'.op \in {"get_burner", "get_burner_await"}
               /\ \A c \in Callers : calls[c].pc = "funding" => calls'[c] = calls[c]
               /\ reserve_pool # <<>>) =>
                  /\ InPool(reserve_pool, last'.w)
                  /\ ~InPool(reserve_pool', last'.w)
                  /\ \A k \in Range(reserve_pool) : last'.w <= k
                  /\ \A k \in Range(reserve_pool) : k # last'.w => InPool(reserve_pool', k)]_vars

\* a reserve stocked by hand with wallets 1 and 2: get_burner hands out wallet 1
C34_Witness ==
    /\ last.op = "get_burner"
    /\ min_reserve_size = 0
    /\ last.w = 1
    /\ active_pool = <<1>>
    /\ reserve_pool = <<2>>
    /\ get_pool_stats(PM).total = 2
    /\ Len(wallets) = 2

====
